---------------------------- MODULE Spec2Model ----------------------------
(***************************************************************************)
(* A model of minecraftty: terrain generation and chunk meshing            *)
(* (src/src/world_gen.rs, src/src/geometry.rs) and the terminal frame      *)
(* loop (src/src/main.rs).                                                 *)
(*                                                                         *)
(* Four specifications share the module:                                   *)
(*   SpecChunk  generate_chunk_geometry on one of the four chunks of       *)
(*              MinecraftTTY::new: generate_chunk's columns and the        *)
(*              meshing loop over their blocks;                            *)
(*   Spec       MinecraftTTY::run: input, render, present_to_terminal;     *)
(*   SpecAnyBuffer  one present_to_terminal call on a pixel buffer of any  *)
(*              length;                                                    *)
(*   SpecAnyCell  the body of present_to_terminal's cell loop, as the      *)
(*              function from a cell to its two colours, applied to cells  *)
(*              of small terminals and of terminals whose pixel indices    *)
(*              exceed u32.                                                *)
(* Each specification leaves the other parts' variables unchanged.         *)
(*                                                                         *)
(* Numbers.  f64 noise samples are fixed-point fractions k / NoiseDen.     *)
(* Texture coordinates are counted in halves (0.5 is 1, 1.0 is 2).         *)
(* u32 and usize values are pairs of halves (see Norm).                    *)
(***************************************************************************)
EXTENDS Integers, Sequences, FiniteSets, TLC

VARIABLES
    \* ---- generate_chunk / generate_chunk_geometry (world_gen.rs) ----
    chunk_pos,      \* the argument of generate_chunk_geometry
    perlin,         \* the noise function Perlin::new(42) stands for
    cpc,            \* position in generate_chunk_geometry
    gx, gz,         \* the column being generated / meshed (loops x, z)
    height_noise,   \* numerator of the column's noise sample
    column,         \* the column's blocks, bottom to top (block types)
    my,             \* index of the next block of the column to mesh
    block_count,    \* blocks meshed so far
    n_vertices,     \* vertices.len()
    n_indices,      \* indices.len()
    last_vertices,  \* the 24 vertices pushed for the latest block
    last_indices,   \* the 36 indices pushed for the latest block
    index_offset,   \* the u16 running vertex offset
    wrapped,        \* an integer operation wrapped around (u16 or usize)
    index_count,    \* Geometry.index_count of the finished mesh
    \* ---- MinecraftTTY (main.rs) ----
    terminal_width, terminal_height,  \* the fields set by MinecraftTTY::new
    run_pc,         \* position in run
    raw_mode, alt_screen, cursor_hidden,  \* what the terminal is left in
    loop_result,    \* the value the loop of run broke with ("none" inside)
    run_result,     \* the value run returned ("none" before)
    exit_key,       \* the key on which handle_input returned Ok(false)
    ppc,            \* position in present_to_terminal
    pixels,         \* the buffer read_pixels returned for this frame
    terminal_row, terminal_col,       \* the loops of present_to_terminal
    prev_color1, prev_color2,         \* Option<[u8; 3]>
    out,            \* what this call has written to the BufWriter: its tokens
                    \* and, after a failed write!, the pieces written of that one
    frame_no,       \* presents completed so far, counted up to MaxFrames
    prev_pixels, prev_out,            \* pixels and out of the call before
    sampled         \* SpecAnyCell: the cell the loop body was applied to, with
                    \* its c1 and c2

\* what one call of generate_chunk_geometry is given
chunk_input == <<chunk_pos, perlin>>

\* the chunk variables but wrapped
chunk_rest == <<chunk_input, cpc, gx, gz, height_noise, column, my,
                block_count, n_vertices, n_indices, last_vertices,
                last_indices, index_offset, index_count>>

chunk_vars == <<chunk_input, cpc, gx, gz, height_noise, column, my, block_count,
                n_vertices, n_indices, last_vertices, last_indices,
                index_offset, wrapped, index_count>>

run_vars == <<terminal_width, terminal_height, run_pc, raw_mode, alt_screen,
              cursor_hidden, loop_result, run_result, exit_key, ppc, pixels,
              terminal_row, terminal_col, prev_color1, prev_color2, out,
              frame_no, prev_pixels, prev_out, sampled>>

vars == <<chunk_vars, run_vars>>

-----------------------------------------------------------------------------
(* Constants of the program *)

CHUNK_SIZE == 8

U16_MODULUS == 65536

VERTICES_PER_CUBE == 24

BlockType == {"Grass", "Dirt", "Stone"}

(* Bounds of the model *)

\* noise samples are k / NoiseDen for k in -NoiseDen .. NoiseDen.  NoiseDen is
\* above 2, so that for some samples (s + 1) * 2 + 3 is no integer
NoiseDen == 3

\* terminal sizes are 1..MaxCols by 1..MaxRows
MaxCols == 2
MaxRows == 2

\* rendered frames follow the patterns a*x + b*y + c, a and b in 0..PatternMax
PatternMax == 1

\* frame_no counts completed presents up to MaxFrames
MaxFrames == 2

\* noise functions rise by 0..NoiseSlopeMax samples per block along x and z
NoiseSlopeMax == 1

-----------------------------------------------------------------------------
(* generate_chunk *)

\* Perlin::get returns a value in [-1, 1]
NoiseSamples == (0 - NoiseDen) .. NoiseDen

\* The noise crate is outside the repository.  Perlin::new(42) is a fixed
\* function of the world position; it is taken from a family of functions
\* that covers every sample: the flat ones and the ones stepping through the
\* samples along x, along z or along both.
NoiseFields ==
    [a : 0..NoiseSlopeMax, b : 0..NoiseSlopeMax, c : 0..(Cardinality(NoiseSamples) - 1)]

\* the function that is 0.0 everywhere
FlatNoise == [a |-> 0, b |-> 0, c |-> NoiseDen]

\* perlin.get([(x + actual_chunk_pos.x) / 8.0, (z + actual_chunk_pos.z) / 8.0]),
\* wx and wz the two sums
PerlinGet(field, wx, wz) ==
    ((field.a * wx + field.b * wz + field.c) % Cardinality(NoiseSamples)) - NoiseDen

\* f64 `as usize`: truncation toward zero, negative values saturate at 0
AsUsize(num, den) == IF num < 0 THEN 0 ELSE num \div den

\* Height rounded to the nearest integer instead of truncated: what C9 must
\* tell apart
HeightRounded(k) ==
    AsUsize(2 * ((k + NoiseDen) * 2 + 3 * NoiseDen) + NoiseDen, 2 * NoiseDen)

\* ((height_noise + 1.0) * 2.0 + 3.0) as usize
Height(k) == AsUsize((k + NoiseDen) * 2 + 3 * NoiseDen, NoiseDen)

\* a usize subtraction a - b goes below zero
SubOverflowsUsize(a, b) == a < b

\* the material of the block at y in a column of the given height, in a build
\* that does not panic.  height - 1 and height - 3 are usize subtractions:
\* where height - 3 wraps, it is 2^64 + height - 3, above every y.
BlockTypeAt(y, height) ==
    IF y = height - 1 THEN "Grass"
    ELSE IF SubOverflowsUsize(height, 3) THEN "Stone"
    ELSE IF y > height - 3 THEN "Dirt"
    ELSE "Stone"

\* some block of the column evaluates a height - 3 that goes below zero:
\* one that is not the top block (for which y == height - 1 is met first)
ColumnOverflows(height) ==
    \E y \in 0..(height - 1) : y # height - 1 /\ SubOverflowsUsize(height, 3)

\* for y in 0..height: column.push(Block { .. })
Column(height) == [i \in 1..height |-> BlockTypeAt(i - 1, height)]

\* for x in 0..2 { for z in 0..2 { let chunk_pos = Vec2::new(x, z); .. } }
ChunkPositions == {<<x, z>> : x \in 0..1, z \in 0..1}

actual_chunk_pos == <<chunk_pos[1] * CHUNK_SIZE, 0, chunk_pos[2] * CHUNK_SIZE>>

world_pos(x, y, z) ==
    <<actual_chunk_pos[1] + x, actual_chunk_pos[2] + y, actual_chunk_pos[3] + z>>

-----------------------------------------------------------------------------
(* generate_chunk_geometry: the cube of one block *)

grass_side_tc == << <<0, 0>>, <<1, 1>>, <<0, 1>>, <<1, 0>> >>
grass_top_tc  == << <<1, 0>>, <<2, 1>>, <<1, 1>>, <<2, 0>> >>
stone_tc      == << <<0, 1>>, <<1, 2>>, <<0, 2>>, <<1, 1>> >>
dirt_tc       == << <<1, 1>>, <<2, 2>>, <<1, 2>>, <<2, 1>> >>

\* the table with the top and bottom of Grass exchanged: what C15 must tell
\* apart
tex_coords_swapped(block_type) ==
    CASE block_type = "Grass" ->
            <<grass_side_tc, grass_side_tc, grass_side_tc, grass_side_tc,
              grass_top_tc, dirt_tc>>
      [] block_type = "Dirt"  -> [f \in 1..6 |-> dirt_tc]
      [] block_type = "Stone" -> [f \in 1..6 |-> stone_tc]

\* match block.block_type { .. }: one table of four coordinates per face
tex_coords(block_type) ==
    CASE block_type = "Grass" ->
            <<grass_side_tc, grass_side_tc, grass_side_tc, grass_side_tc,
              dirt_tc, grass_top_tc>>
      [] block_type = "Dirt"  -> [f \in 1..6 |-> dirt_tc]
      [] block_type = "Stone" -> [f \in 1..6 |-> stone_tc]

\* the corner offsets (dx, dy, dz) of the 24 vertices, face by face
cube_corners ==
    << <<0,1,1>>, <<1,0,1>>, <<0,0,1>>, <<1,1,1>>,      \* front
       <<0,1,0>>, <<1,0,0>>, <<0,0,0>>, <<1,1,0>>,      \* back
       <<0,1,0>>, <<0,0,1>>, <<0,0,0>>, <<0,1,1>>,      \* left
       <<1,1,0>>, <<1,0,1>>, <<1,0,0>>, <<1,1,1>>,      \* right
       <<0,0,1>>, <<1,0,0>>, <<0,0,0>>, <<1,0,1>>,      \* bottom
       <<0,1,1>>, <<1,1,0>>, <<0,1,0>>, <<1,1,1>> >>    \* top

\* the vertex colours of one face, in vertex order
face_colors == << <<1,0,0>>, <<0,1,0>>, <<0,0,1>>, <<0,0,1>> >>

\* Vertex::new(position, color, tex_coord) for the 24 vertices of a block
cube_vertices(pos, block_type) ==
    [v \in 1..Len(cube_corners) |->
        LET f == (v - 1) \div 4
            i == (v - 1) % 4
        IN  [position  |-> <<pos[1] + cube_corners[v][1],
                             pos[2] + cube_corners[v][2],
                             pos[3] + cube_corners[v][3]>>,
             color     |-> face_colors[i + 1],
             tex_coord |-> tex_coords(block_type)[f + 1][i + 1]]]

\* face_indices without the top face: what C10 must tell apart
face_indices_culled ==
    << <<0, 1, 2, 0, 3, 1>>,
       <<6, 5, 4, 5, 7, 4>>,
       <<8, 9, 10, 8, 11, 9>>,
       <<14, 13, 12, 13, 15, 12>>,
       <<16, 17, 18, 16, 19, 17>> >>

\* let face_indices = [ .. ]
face_indices ==
    << <<0, 1, 2, 0, 3, 1>>,
       <<6, 5, 4, 5, 7, 4>>,
       <<8, 9, 10, 8, 11, 9>>,
       <<14, 13, 12, 13, 15, 12>>,
       <<16, 17, 18, 16, 19, 17>>,
       <<22, 21, 20, 21, 23, 20>> >>

\* u16 addition: the mathematical sum, and what a wrapping build stores
AddU16(a, b) == (a + b) % U16_MODULUS
OverflowsU16(a, b) == a + b >= U16_MODULUS

\* for (face, face_idx) in face_indices.iter().enumerate() {
\*     let base = index_offset + (face * 4) as u16;
\*     for &idx in face_idx { indices.push(base + idx); } }
BlockIndices(offset) ==
    [n \in 1..(6 * Len(face_indices)) |->
        LET face == (n - 1) \div 6
            idx  == face_indices[face + 1][((n - 1) % 6) + 1]
            base == AddU16(offset, face * 4)
        IN  AddU16(base, idx)]

\* whether an addition of the block's index arithmetic exceeds u16
BlockOverflows(offset) ==
    \/ \E face \in 0..(Len(face_indices) - 1) :
          \/ OverflowsU16(offset, face * 4)
          \/ \E j \in 1..6 :
                OverflowsU16(AddU16(offset, face * 4), face_indices[face + 1][j])
    \/ OverflowsU16(offset, VERTICES_PER_CUBE)


-----------------------------------------------------------------------------
(* The frame loop's variables while a chunk specification runs *)

None == << >>
Some(c) == <<c>>

\* an empty Vec<u8>, where no frame has been read: a length of 0 (as the
\* halves of a number, see Norm) and no content
EmptyBuffer == [pat |-> [a |-> 0, b |-> 0, c |-> 0], len |-> <<0, 0>>]

\* no cell has been sampled
NotSampled == << >>

RunIdle ==
    /\ terminal_width = 1
    /\ terminal_height = 1
    /\ run_pc = "enable_raw"
    /\ raw_mode = FALSE
    /\ alt_screen = FALSE
    /\ cursor_hidden = FALSE
    /\ loop_result = "none"
    /\ run_result = "none"
    /\ exit_key = "none"
    /\ ppc = "idle"
    /\ pixels = EmptyBuffer
    /\ terminal_row = 0
    /\ terminal_col = 0
    /\ prev_color1 = None
    /\ prev_color2 = None
    /\ out = << >>
    /\ frame_no = 0
    /\ prev_pixels = EmptyBuffer
    /\ prev_out = << >>
    /\ sampled = NotSampled

-----------------------------------------------------------------------------
(* generate_chunk_geometry: the loop over the chunk's blocks *)

mesh_vars == <<block_count, n_vertices, n_indices, last_vertices,
               last_indices, index_offset, wrapped>>

\* the loop body for one block: vertices.extend(cube_vertices), the index
\* pushes, index_offset += 24
MeshPush(pos, block_type) ==
    /\ n_vertices' = n_vertices + Len(cube_vertices(pos, block_type))
    /\ last_vertices' = cube_vertices(pos, block_type)
    /\ n_indices' = n_indices + Len(BlockIndices(index_offset))
    /\ last_indices' = BlockIndices(index_offset)
    /\ index_offset' = AddU16(index_offset, VERTICES_PER_CUBE)
    /\ wrapped' = (wrapped \/ BlockOverflows(index_offset))
    /\ block_count' = block_count + 1

\* What an overflowing u16 addition or usize subtraction does depends on the
\* build: with overflow checks it panics, without them it wraps.  A build
\* that has wrapped before has no checks.
MayPanic == IF BlockOverflows(index_offset) /\ ~wrapped THEN BOOLEAN ELSE {FALSE}

MeshInit ==
    /\ block_count = 0
    /\ n_vertices = 0
    /\ n_indices = 0
    /\ last_vertices = << >>
    /\ last_indices = << >>
    /\ index_offset = 0
    /\ wrapped = FALSE
    /\ index_count = 0

\* generate_chunk's body for one column (x, z): the noise sample, the
\* height, the blocks.  The meshing loop visits the columns in the order
\* generate_chunk builds them, so each column is meshed as it is generated.
GenerateColumn ==
    /\ cpc = "gen"
    /\ LET k == PerlinGet(perlin, world_pos(gx, 0, gz)[1], world_pos(gx, 0, gz)[3])
           height == Height(k)
       IN  \E panics \in (IF ColumnOverflows(height) /\ ~wrapped
                           THEN BOOLEAN ELSE {FALSE}) :
              IF panics
              THEN /\ cpc' = "panicked"
                   /\ UNCHANGED <<height_noise, column, my, wrapped>>
              ELSE /\ height_noise' = k
                   /\ column' = Column(height)
                   /\ my' = 0
                   /\ wrapped' = (wrapped \/ ColumnOverflows(height))
                   /\ cpc' = "mesh"
    /\ UNCHANGED <<gx, gz, block_count, n_vertices, n_indices, last_vertices,
                   last_indices, index_offset, index_count>>
    /\ UNCHANGED <<chunk_input, run_vars>>

\* for block in row { .. }
MeshBlock ==
    /\ cpc = "mesh"
    /\ my < Len(column)
    /\ \E panics \in MayPanic :
          IF panics
          THEN /\ cpc' = "panicked"
               /\ UNCHANGED <<my, mesh_vars>>
          ELSE /\ MeshPush(world_pos(gx, my, gz), column[my + 1])
               /\ my' = my + 1
               /\ UNCHANGED cpc
    /\ UNCHANGED <<gx, gz, height_noise, column, index_count>>
    /\ UNCHANGED <<chunk_input, run_vars>>

\* the end of a column: the next z, then the next x, then Geometry::new
NextColumn ==
    /\ cpc = "mesh"
    /\ my = Len(column)
    /\ IF gz + 1 < CHUNK_SIZE
       THEN gz' = gz + 1 /\ UNCHANGED gx /\ cpc' = "gen"
       ELSE IF gx + 1 < CHUNK_SIZE
            THEN gx' = gx + 1 /\ gz' = 0 /\ cpc' = "gen"
            ELSE UNCHANGED <<gx, gz>> /\ cpc' = "finish"
    /\ UNCHANGED <<height_noise, column, my, mesh_vars, index_count>>
    /\ UNCHANGED <<chunk_input, run_vars>>

\* Geometry::new(device, &vertices, &indices)
GeometryNew ==
    /\ cpc = "finish"
    /\ index_count' = n_indices
    /\ cpc' = "built"
    /\ UNCHANGED <<gx, gz, height_noise, column, my, mesh_vars>>
    /\ UNCHANGED <<chunk_input, run_vars>>

\* generate_chunk_geometry returns the Geometry: the chunk and the vertices
\* and indices Vecs are dropped, the counts stay as the sizes of the buffers
\* the Geometry holds
ReturnGeometry ==
    /\ cpc = "built"
    /\ cpc' = "returned"
    /\ column' = << >>
    /\ last_vertices' = << >>
    /\ last_indices' = << >>
    /\ UNCHANGED <<gx, gz, height_noise, my, block_count, n_vertices, n_indices,
                   index_offset, wrapped, index_count>>
    /\ UNCHANGED <<chunk_input, run_vars>>

ChunkInit ==
    /\ RunIdle
    /\ chunk_pos \in ChunkPositions
    /\ perlin \in NoiseFields
    /\ cpc = "gen"
    /\ gx = 0
    /\ gz = 0
    /\ height_noise = 0
    /\ column = << >>
    /\ my = 0
    /\ MeshInit

ChunkNext ==
    GenerateColumn \/ MeshBlock \/ NextColumn \/ GeometryNew \/ ReturnGeometry

SpecChunk == ChunkInit /\ [][ChunkNext]_vars

-----------------------------------------------------------------------------
(* Claims about the chunk mesh *)

\* the index pattern of a face relative to its own four vertices
WindingPattern(f) ==
    IF f \in {0, 2, 4} THEN <<0, 1, 2, 0, 3, 1>> ELSE <<2, 1, 0, 1, 3, 0>>

\* C1: when a chunk mesh of N blocks is built, every index pushed is below
\* 24 * N (stated for the indices of the last block, the largest ones).
C1_IndicesInRange ==
    cpc = "built" =>
        \A i \in DOMAIN last_indices : last_indices[i] < 24 * block_count

\* C2: the six indices of face f of block N are 24*N + 4*f + p[j], p the
\* forward pattern for front, left, bottom and the mirrored one for back,
\* right, top.
C2_FaceWindows ==
    (block_count > 0 /\ cpc # "returned") =>
        \A f \in 0..5 : \A j \in 1..6 :
            last_indices[6 * f + j]
                = 24 * (block_count - 1) + 4 * f + WindingPattern(f)[j]

\* C6: in a generated column of height h >= 1 the block at h-1 is Grass,
\* those at h-2 and h-3 are Dirt, every block below h-3 is Stone.
C6_ColumnShape ==
    (cpc = "mesh" /\ Len(column) >= 1) =>
        LET h == Len(column)
        IN  /\ column[h] = "Grass"
            /\ \A y \in 0..(h - 2) :
                  /\ (y >= h - 3) => column[y + 1] = "Dirt"
                  /\ (y < h - 3) => column[y + 1] = "Stone"

\* C9: for a sample s = k / NoiseDen in [-1, 1] the column height h is
\* floor((s + 1) * 2 + 3), i.e. h <= (s + 1) * 2 + 3 < h + 1, and h is in
\* 3..7, so height - 3 is not negative.
C9_HeightRange ==
    cpc = "mesh" =>
        LET h == Len(column)
            v == (height_noise + NoiseDen) * 2 + 3 * NoiseDen
        IN  /\ h * NoiseDen <= v
            /\ v < (h + 1) * NoiseDen
            /\ h \in 3..7
            /\ h - 3 >= 0

\* a column of a sample whose height expression is half an integer or more
\* above the integer below it: the truncation takes the lower one
C9_Witness ==
    /\ cpc = "mesh"
    /\ 2 * (((height_noise + NoiseDen) * 2 + 3 * NoiseDen) % NoiseDen) >= NoiseDen
    /\ Len(column) = ((height_noise + NoiseDen) * 2 + 3 * NoiseDen) \div NoiseDen
    /\ my = Len(column)

\* C10: after N blocks the vertex buffer holds 24 * N vertices and the index
\* buffer 36 * N indices, each block adding 24 and 36, and the finished
\* geometry's index_count is 36 * N.
C10_BufferSizes ==
    /\ n_vertices = 24 * block_count
    /\ n_indices = 36 * block_count
    /\ (block_count > 0 /\ cpc # "returned") =>
          (Len(last_vertices) = 24 /\ Len(last_indices) = 36)
    /\ cpc \in {"built", "returned"} => index_count = 36 * block_count

\* a finished chunk: 64 columns of stacked, adjacent blocks
C10_Witness ==
    /\ cpc = "built"
    /\ block_count >= 3 * CHUNK_SIZE * CHUNK_SIZE
    /\ index_count > 0

-----------------------------------------------------------------------------
(* present_to_terminal: the colours of one cell *)

\* the pixel buffer's width: Renderer::new(renderer_width, ..)
renderer_width == terminal_width * 2
renderer_height == terminal_height * 2

\* ((a as u16 + b as u16) / 2) as u8
AvgU8(a, b) == (((a + b) % U16_MODULUS) \div 2) % 256

\* Numbers beyond 2^31 are kept as <<high, low>>, worth high * 2^16 + low with
\* low below 2^16.  A u32 has its high half below 2^16 as well, so that the
\* wrap-around at 2^32 is exact; a usize (64 bits) has not.
Norm(high, low) == <<high + (low \div U16_MODULUS), low % U16_MODULUS>>

\* a number below 2^31 as a u32
ToU32(n) == <<n \div U16_MODULUS, n % U16_MODULUS>>

\* the product of two 16-bit halves, as a u32 (it always fits)
MulHalves(a, b) ==
    LET p1 == (a \div 256) * b
        p0 == (a % 256) * b
        lo == (p1 % 256) * 256 + (p0 % U16_MODULUS)
    IN  <<(p1 \div 256) + (p0 \div U16_MODULUS) + (lo \div U16_MODULUS),
          lo % U16_MODULUS>>

\* u32 multiplication: what a wrapping build stores, and whether the
\* mathematical product exceeds u32
MulU32(a, b) ==
    LET low == MulHalves(a[2], b[2])
        mid == low[1] + MulHalves(a[1], b[2])[2] + MulHalves(a[2], b[1])[2]
    IN  <<mid % U16_MODULUS, low[2]>>
MulOverflowsU32(a, b) ==
    LET high_low == MulHalves(a[1], b[2])
        low_high == MulHalves(a[2], b[1])
    IN  \/ a[1] > 0 /\ b[1] > 0
        \/ high_low[1] > 0
        \/ low_high[1] > 0
        \/ MulHalves(a[2], b[2])[1] + high_low[2] + low_high[2] >= U16_MODULUS

\* u32 addition, the same way
AddU32(a, b) ==
    <<(a[1] + b[1] + ((a[2] + b[2]) \div U16_MODULUS)) % U16_MODULUS,
      (a[2] + b[2]) % U16_MODULUS>>
AddOverflowsU32(a, b) ==
    a[1] + b[1] + ((a[2] + b[2]) \div U16_MODULUS) >= U16_MODULUS

\* (y * self.renderer.width + x) * 4, computed in u32.  x and y are at most
\* 2 * 65535 + 1: the terminal's size is a pair of u16 (get_terminal_size).
PixelIdx(x, y) ==
    LET row_start == MulU32(ToU32(y), ToU32(renderer_width))
    IN  MulU32(AddU32(row_start, ToU32(x)), ToU32(4))

\* one of the three operations of PixelIdx exceeds u32
PixelIdxOverflows(x, y) ==
    LET row_start == MulU32(ToU32(y), ToU32(renderer_width))
    IN  \/ MulOverflowsU32(ToU32(y), ToU32(renderer_width))
        \/ AddOverflowsU32(row_start, ToU32(x))
        \/ MulOverflowsU32(AddU32(row_start, ToU32(x)), ToU32(4))

\* `as usize` of a u32: the usize of the same value
IndexOf(idx) == Norm(idx[1], idx[2])

\* usize arithmetic on indices and lengths: a + k for a small k (an index is
\* below 2^32, so the sum never exceeds usize), and a < b
AddUsize(a, k) == Norm(a[1], a[2] + k)
LessUsize(a, b) == a[1] < b[1] \/ (a[1] = b[1] /\ a[2] < b[2])

\* the colours of rendered pixels: black, white, the clear colour
Palette == << <<0, 0, 0>>, <<255, 255, 255>>, <<102, 178, 255>> >>

\* a and b are the steps through the palette along x and y; c says whether
\* the top-left pixel is black or white
Patterns == [a : 0..PatternMax, b : 0..PatternMax, c : 0..1]

\* the colour of the pixel at (x, y) of a frame of the pattern pat
PixelColour(pat, x, y) ==
    Palette[((pat.a * x + pat.b * y + pat.c) % Len(Palette)) + 1]

\* A pixel buffer is kept as its length and the pattern of its content, not
\* byte by byte: pixels.len() is buf.len, and pixels[i] is channel i % 4 of
\* pixel i / 4 of an RGBA8 frame, row-major from the top-left, that is
\* renderer_width pixels wide.  i is an index below 2^32.
Px(buf, i) ==
    LET p  == i[1] * (U16_MODULUS \div 4) + (i[2] \div 4)
        ch == i[2] % 4
    IN  IF ch = 3 THEN 255
        ELSE PixelColour(buf.pat, p % renderer_width, p \div renderer_width)[ch + 1]

\* three channels starting at idx
Rgb(buf, idx) == <<Px(buf, idx), Px(buf, AddUsize(idx, 1)), Px(buf, AddUsize(idx, 2))>>

\* the average of the pixels at left and right, channel by channel
AvgRgb(buf, left, right) ==
    <<AvgU8(Px(buf, left), Px(buf, right)),
      AvgU8(Px(buf, AddUsize(left, 1)), Px(buf, AddUsize(right, 1))),
      AvgU8(Px(buf, AddUsize(left, 2)), Px(buf, AddUsize(right, 2)))>>

\* idx + 2 < pixels.len(), the test made before a pixel's channels are read
InBuffer(buf, idx) == LessUsize(AddUsize(idx, 2), buf.len)

\* let c1 = if .. { average } else if .. { left pixel } else { [0, 0, 0] }
TopColor(buf, row, col) ==
    LET top_left_idx  == IndexOf(PixelIdx(col * 2, row * 2))
        top_right_idx == IndexOf(PixelIdx(col * 2 + 1, row * 2))
    IN  IF InBuffer(buf, top_left_idx) /\ InBuffer(buf, top_right_idx)
        THEN AvgRgb(buf, top_left_idx, top_right_idx)
        ELSE IF InBuffer(buf, top_left_idx)
             THEN Rgb(buf, top_left_idx)
             ELSE <<0, 0, 0>>

\* let c2 = if .. { average } else if .. { left pixel } else { c1 }
BottomColor(buf, row, col) ==
    LET bottom_left_idx  == IndexOf(PixelIdx(col * 2, row * 2 + 1))
        bottom_right_idx == IndexOf(PixelIdx(col * 2 + 1, row * 2 + 1))
    IN  IF InBuffer(buf, bottom_left_idx) /\ InBuffer(buf, bottom_right_idx)
        THEN AvgRgb(buf, bottom_left_idx, bottom_right_idx)
        ELSE IF InBuffer(buf, bottom_left_idx)
             THEN Rgb(buf, bottom_left_idx)
             ELSE TopColor(buf, row, col)

\* the indices pixels[..] is read at for the pixels at left and right: both
\* when both pass the test, the left one when only it does, else none
PairReads(buf, left, right) ==
    IF InBuffer(buf, left) /\ InBuffer(buf, right)
    THEN {AddUsize(left, k) : k \in 0..2} \cup {AddUsize(right, k) : k \in 0..2}
    ELSE IF InBuffer(buf, left)
         THEN {AddUsize(left, k) : k \in 0..2}
         ELSE {}

\* every index of pixels read while c1 and c2 of a cell are computed
CellReads(buf, row, col) ==
    PairReads(buf, IndexOf(PixelIdx(col * 2, row * 2)),
              IndexOf(PixelIdx(col * 2 + 1, row * 2)))
        \cup PairReads(buf, IndexOf(PixelIdx(col * 2, row * 2 + 1)),
                        IndexOf(PixelIdx(col * 2 + 1, row * 2 + 1)))

\* pixels[i] with i at or past pixels.len(): the index panic of a slice
ReadsPastEnd(buf, row, col) ==
    \E i \in CellReads(buf, row, col) : ~LessUsize(i, buf.len)

\* one of the four indices of a cell exceeds u32 while it is computed
CellOverflows(row, col) ==
    \/ PixelIdxOverflows(col * 2, row * 2)
    \/ PixelIdxOverflows(col * 2 + 1, row * 2)
    \/ PixelIdxOverflows(col * 2, row * 2 + 1)
    \/ PixelIdxOverflows(col * 2 + 1, row * 2 + 1)

\* a test of the foreground alone: what C16 must tell apart
NeedsColorForegroundOnly(p1, p2, c1, c2) ==
    \/ p1 = None
    \/ p1[1] # c1

\* if prev_color1.is_none() || prev_color1.unwrap() != c1
\*     || prev_color2.is_none() || prev_color2.unwrap() != c2
NeedsColor(p1, p2, c1, c2) ==
    \/ p1 = None
    \/ p1[1] # c1
    \/ p2 = None
    \/ p2[1] # c2

\* let mut prev_color1: Option<[u8; 3]> = None; the same for prev_color2
InitialPrevColor == None

-----------------------------------------------------------------------------
(* The frames the renderer hands back *)

\* w * h * 4 as a usize, for w and h up to 2^17: the bytes of h pixel rows
FrameLen(w, h) ==
    LET upper == w * (h \div 256)
        lower == w * (h % 256)
        wh    == Norm(upper \div 256, (upper % 256) * 256 + lower)
    IN  Norm(4 * wh[1], 4 * wh[2])

\* an RGBA8 buffer, row-major from the top-left, of h pixel rows
PixelBuffer(pat, h) == [pat |-> pat, len |-> FrameLen(renderer_width, h)]

\* what read_pixels may return for the session's renderer size
Frames == {PixelBuffer(pat, renderer_height) : pat \in Patterns}

-----------------------------------------------------------------------------
(* present_to_terminal, one write at a time *)

\* "\x1b[?2026h", begin synchronized update
SyncBegin == <<"begin">>

\* the end marker written with an h for its l: what C11 must tell apart
SyncEndTypo == <<"begin">>

\* "\x1b[?2026l", end synchronized update
SyncEnd == <<"end">>

\* a directive that counts rows from 0: what C12 must tell apart
RowDirectiveFromZero(row) == <<"pos", row>>

\* "\x1b[{};1H" formatted with terminal_row + 1
RowDirective(row) == <<"pos", row + 1>>

\* write! of a format string with arguments hands the BufWriter the string
\* piece by piece: a literal, a formatted number, a literal, ..  A token of
\* n numbers is 2 n + 1 pieces.
Pieces(tok) == 2 * (Len(tok) - 1) + 1

PartName == [pos |-> "part of pos", fg |-> "part of fg", bg |-> "part of bg"]

\* the first j pieces of a token, 0 < j < Pieces(tok): its opening literal,
\* the first j \div 2 of its numbers and the literals between them
Fragment(tok, j) == <<PartName[tok[1]], j>> \o SubSeq(Tail(tok), 1, j \div 2)

\* A write! of such a token fails on the piece that makes the full BufWriter
\* spill: the pieces before it are in the BufWriter already and stay there
\* (its drop hands them to stdout).  The first piece may be the one.
FailedWrite(tok) ==
    \E j \in 0..(Pieces(tok) - 1) :
        out' = IF j = 0 THEN out ELSE Append(out, Fragment(tok, j))

present_vars == <<ppc, pixels, terminal_row, terminal_col, prev_color1,
                  prev_color2, out, frame_no, prev_pixels, prev_out, sampled>>

term_vars == <<raw_mode, alt_screen, cursor_hidden>>

\* an Err leaves present_to_terminal, render and the loop of run through `?`
\* and `break Err(e)`.  The BufWriter hands its buffer to stdout whenever it
\* fills, so any write! of a frame may be the one that reports the failure;
\* the writes after it are not made.  out keeps what the BufWriter was given
\* before the failure.
PresentFails ==
    /\ ppc' = "err"
    /\ loop_result' = "Err"
    /\ run_pc' = "leave_alt"

\* the rest of render: nothing else of the loop changes
InFrame ==
    /\ UNCHANGED <<loop_result, run_pc>>

\* render up to let pixels = self.renderer.read_pixels().await?
ReadPixels ==
    /\ run_pc = "render"
    /\ ppc \in {"idle", "ok"}
    /\ prev_pixels' = pixels
    /\ prev_out' = out
    /\ out' = << >>
    /\ \E ok \in BOOLEAN :
          IF ok
          THEN /\ pixels' \in Frames
               /\ ppc' = "begin"
               /\ InFrame
          ELSE /\ pixels' = EmptyBuffer
               /\ PresentFails
    /\ UNCHANGED <<terminal_row, terminal_col, prev_color1, prev_color2,
                   frame_no>>
    /\ UNCHANGED <<terminal_width, terminal_height, sampled, term_vars, run_result,
                   exit_key, chunk_vars>>

\* write!(stdout, "\x1b[?2026h")?
WriteBegin ==
    /\ run_pc = "render"
    /\ ppc = "begin"
    /\ \E ok \in BOOLEAN :
          IF ok
          THEN /\ out' = Append(out, SyncBegin)
               /\ ppc' = "home"
               /\ InFrame
          ELSE /\ PresentFails
               /\ UNCHANGED out
    /\ UNCHANGED <<pixels, terminal_row, terminal_col, prev_color1,
                   prev_color2, frame_no, prev_pixels, prev_out>>
    /\ UNCHANGED <<terminal_width, terminal_height, sampled, term_vars, run_result,
                   exit_key, chunk_vars>>

\* write!(stdout, "\x1b[H")?, the two prev_color locals, the row loop's start
WriteHome ==
    /\ run_pc = "render"
    /\ ppc = "home"
    /\ \E ok \in BOOLEAN :
          IF ok
          THEN /\ out' = Append(out, <<"home">>)
               /\ prev_color1' = InitialPrevColor
               /\ prev_color2' = InitialPrevColor
               /\ terminal_row' = 0
               /\ ppc' = IF terminal_height > 0 THEN "row" ELSE "end"
               /\ InFrame
          ELSE /\ PresentFails
               /\ UNCHANGED <<out, prev_color1, prev_color2, terminal_row>>
    /\ UNCHANGED <<pixels, terminal_col, frame_no, prev_pixels, prev_out>>
    /\ UNCHANGED <<terminal_width, terminal_height, sampled, term_vars, run_result,
                   exit_key, chunk_vars>>

\* where the loops go after the cell at terminal_col, or after an empty row
AfterCell(col) ==
    IF col < terminal_width
    THEN /\ terminal_col' = col
         /\ UNCHANGED terminal_row
         /\ ppc' = "cell"
    ELSE /\ UNCHANGED terminal_col
         /\ terminal_row' = terminal_row + 1
         /\ ppc' = IF terminal_row + 1 < terminal_height THEN "row" ELSE "end"

\* write!(stdout, "\x1b[{};1H", terminal_row + 1)?
WriteRowPos ==
    /\ run_pc = "render"
    /\ ppc = "row"
    /\ \E ok \in BOOLEAN :
          IF ok
          THEN /\ out' = Append(out, RowDirective(terminal_row))
               /\ IF terminal_width > 0
                  THEN /\ terminal_col' = 0
                       /\ UNCHANGED terminal_row
                       /\ ppc' = "cell"
                  ELSE AfterCell(0)
               /\ InFrame
          ELSE /\ PresentFails
               /\ FailedWrite(RowDirective(terminal_row))
               /\ UNCHANGED <<terminal_row, terminal_col>>
    /\ UNCHANGED <<pixels, prev_color1, prev_color2, frame_no, prev_pixels,
                   prev_out>>
    /\ UNCHANGED <<terminal_width, terminal_height, sampled, term_vars, run_result,
                   exit_key, chunk_vars>>

\* the cell's indices and colours, the test of the previous pair and, when
\* it asks for the codes, write!(stdout, "\x1b[38;2;{};{};{}m", c1[0], c1[1],
\* c1[2])?  An index computation that exceeds u32 panics in a build with
\* overflow checks and wraps in one without.
WriteForeground ==
    /\ run_pc = "render"
    /\ ppc = "cell"
    /\ LET c1 == TopColor(pixels, terminal_row, terminal_col)
           c2 == BottomColor(pixels, terminal_row, terminal_col)
           overflows == CellOverflows(terminal_row, terminal_col)
       IN  /\ \E panics \in (IF overflows /\ ~wrapped THEN BOOLEAN ELSE {FALSE}) :
                 IF panics \/ ReadsPastEnd(pixels, terminal_row, terminal_col)
                 THEN \* an overflow, or an index past the end: nothing catches it
                      /\ ppc' = "panicked"
                      /\ run_pc' = "panicked"
                      /\ UNCHANGED <<loop_result, out>>
                 ELSE IF NeedsColor(prev_color1, prev_color2, c1, c2)
                 THEN \E ok \in BOOLEAN :
                         IF ok
                         THEN /\ out' = Append(out, <<"fg", c1[1], c1[2], c1[3]>>)
                              /\ ppc' = "bg"
                              /\ InFrame
                         ELSE /\ PresentFails
                              /\ FailedWrite(<<"fg", c1[1], c1[2], c1[3]>>)
                 ELSE /\ ppc' = "glyph"
                      /\ InFrame
                      /\ UNCHANGED out
           /\ wrapped' = (wrapped \/ (ppc' # "panicked" /\ overflows))
    /\ UNCHANGED <<pixels, terminal_row, terminal_col, prev_color1,
                   prev_color2, frame_no, prev_pixels, prev_out>>
    /\ UNCHANGED <<terminal_width, terminal_height, sampled, term_vars, run_result,
                   exit_key, chunk_rest>>

\* write!(stdout, "\x1b[48;2;{};{};{}m", c2[0], c2[1], c2[2])?, then
\* prev_color1 = Some(c1); prev_color2 = Some(c2)
WriteBackground ==
    /\ run_pc = "render"
    /\ ppc = "bg"
    /\ LET c1 == TopColor(pixels, terminal_row, terminal_col)
           c2 == BottomColor(pixels, terminal_row, terminal_col)
       IN  \E ok \in BOOLEAN :
              IF ok
              THEN /\ out' = Append(out, <<"bg", c2[1], c2[2], c2[3]>>)
                   /\ prev_color1' = Some(c1)
                   /\ prev_color2' = Some(c2)
                   /\ ppc' = "glyph"
                   /\ InFrame
              ELSE /\ PresentFails
                   /\ FailedWrite(<<"bg", c2[1], c2[2], c2[3]>>)
                   /\ UNCHANGED <<prev_color1, prev_color2>>
    /\ UNCHANGED <<pixels, terminal_row, terminal_col, frame_no, prev_pixels,
                   prev_out>>
    /\ UNCHANGED <<terminal_width, terminal_height, sampled, term_vars, run_result,
                   exit_key, chunk_vars>>

\* write!(stdout, "▀")?, then the next cell, the next row or the end
WriteGlyph ==
    /\ run_pc = "render"
    /\ ppc = "glyph"
    /\ \E ok \in BOOLEAN :
          IF ok
          THEN /\ out' = Append(out, <<"glyph">>)
               /\ AfterCell(terminal_col + 1)
               /\ InFrame
          ELSE /\ PresentFails
               /\ UNCHANGED <<out, terminal_row, terminal_col>>
    /\ UNCHANGED <<pixels, prev_color1, prev_color2, frame_no, prev_pixels,
                   prev_out>>
    /\ UNCHANGED <<terminal_width, terminal_height, sampled, term_vars, run_result,
                   exit_key, chunk_vars>>

\* write!(stdout, "\x1b[?2026l")?
WriteEnd ==
    /\ run_pc = "render"
    /\ ppc = "end"
    /\ \E ok \in BOOLEAN :
          IF ok
          THEN /\ out' = Append(out, SyncEnd)
               /\ ppc' = "flush"
               /\ InFrame
          ELSE /\ PresentFails
               /\ UNCHANGED out
    /\ UNCHANGED <<pixels, terminal_row, terminal_col, prev_color1,
                   prev_color2, frame_no, prev_pixels, prev_out>>
    /\ UNCHANGED <<terminal_width, terminal_height, sampled, term_vars, run_result,
                   exit_key, chunk_vars>>

\* stdout.flush()?; Ok(()): render returns Ok and run goes on to sleep
Flush ==
    /\ run_pc = "render"
    /\ ppc = "flush"
    /\ \E ok \in BOOLEAN :
          IF ok
          THEN /\ out' = Append(out, <<"flush">>)
               /\ ppc' = "ok"
               /\ frame_no' = IF frame_no < MaxFrames THEN frame_no + 1 ELSE frame_no
               /\ run_pc' = "sleep"
               /\ UNCHANGED loop_result
          ELSE /\ PresentFails
               /\ UNCHANGED <<out, frame_no>>
    /\ UNCHANGED <<pixels, terminal_row, terminal_col, prev_color1,
                   prev_color2, prev_pixels, prev_out>>
    /\ UNCHANGED <<terminal_width, terminal_height, sampled, term_vars, run_result,
                   exit_key, chunk_vars>>

-----------------------------------------------------------------------------
(* run and handle_input *)

\* the keys handle_input tells apart; "none" is no event, a failed poll or
\* read, or an event that is no key; "other" is any other key
Keys == {"none", "x", "Esc", "w", "Up", "s", "Down", "a", "Left", "d", "Right",
         "q", "e", "h", "l", "j", "k", "other"}

\* a handle_input that also quits on 'q': what C8 must tell apart
HandleInputQuitsOnQ(code) == code \notin {"x", "Esc", "q"}

\* the bool handle_input returns: Ok(false) on 'x' or Esc, Ok(true) otherwise.
\* The camera commands of the other keys change only the camera, which feeds
\* the renderer; the frames it returns are unconstrained here.
handle_input(code) == code \notin {"x", "Esc"}

\* terminal::enable_raw_mode()?
EnableRawMode ==
    /\ run_pc = "enable_raw"
    /\ \E ok \in BOOLEAN :
          IF ok
          THEN /\ raw_mode' = TRUE
               /\ run_pc' = "enter_alt"
               /\ UNCHANGED run_result
          ELSE /\ run_result' = "Err"
               /\ run_pc' = "returned"
               /\ UNCHANGED raw_mode
    /\ UNCHANGED <<alt_screen, cursor_hidden, loop_result, exit_key>>
    /\ UNCHANGED <<terminal_width, terminal_height, present_vars, chunk_vars>>

\* execute!(stdout(), terminal::EnterAlternateScreen, cursor::Hide)?
\* A failure is a failed write of a command or a failed flush: any prefix of
\* the two commands may have reached the terminal.
EnterAlternateScreen ==
    /\ run_pc = "enter_alt"
    /\ \E ok \in BOOLEAN :
          IF ok
          THEN /\ alt_screen' = TRUE
               /\ cursor_hidden' = TRUE
               /\ run_pc' = "input"
               /\ UNCHANGED run_result
          ELSE /\ \E done \in 0..2 :
                    /\ alt_screen' = (done >= 1)
                    /\ cursor_hidden' = (done >= 2)
               /\ run_result' = "Err"
               /\ run_pc' = "returned"
    /\ UNCHANGED <<raw_mode, loop_result, exit_key>>
    /\ UNCHANGED <<terminal_width, terminal_height, present_vars, chunk_vars>>

\* if !self.handle_input()? { break Ok(()); }
HandleInput ==
    /\ run_pc = "input"
    /\ \E code \in Keys :
          IF handle_input(code)
          THEN /\ run_pc' = "render"
               /\ UNCHANGED <<loop_result, exit_key>>
          ELSE /\ exit_key' = code
               /\ loop_result' = "Ok"
               /\ run_pc' = "leave_alt"
    /\ UNCHANGED <<term_vars, run_result>>
    /\ UNCHANGED <<terminal_width, terminal_height, present_vars, chunk_vars>>

\* std::thread::sleep(Duration::from_millis(33)), then the loop's next turn
Sleep ==
    /\ run_pc = "sleep"
    /\ run_pc' = "input"
    /\ UNCHANGED <<term_vars, loop_result, run_result, exit_key>>
    /\ UNCHANGED <<terminal_width, terminal_height, present_vars, chunk_vars>>

\* execute!(stdout(), cursor::Show, terminal::LeaveAlternateScreen)?
LeaveAlternateScreen ==
    /\ run_pc = "leave_alt"
    /\ \E ok \in BOOLEAN :
          IF ok
          THEN /\ cursor_hidden' = FALSE
               /\ alt_screen' = FALSE
               /\ run_pc' = "disable_raw"
               /\ UNCHANGED run_result
          ELSE /\ \E done \in 0..2 :
                    /\ cursor_hidden' = (cursor_hidden /\ done < 1)
                    /\ alt_screen' = (alt_screen /\ done < 2)
               /\ run_result' = "Err"
               /\ run_pc' = "returned"
    /\ UNCHANGED <<raw_mode, loop_result, exit_key>>
    /\ UNCHANGED <<terminal_width, terminal_height, present_vars, chunk_vars>>

\* terminal::disable_raw_mode()?; result
DisableRawMode ==
    /\ run_pc = "disable_raw"
    /\ \E ok \in BOOLEAN :
          IF ok
          THEN /\ raw_mode' = FALSE
               /\ run_result' = loop_result
          ELSE /\ run_result' = "Err"
               /\ UNCHANGED raw_mode
    /\ run_pc' = "returned"
    /\ UNCHANGED <<alt_screen, cursor_hidden, loop_result, exit_key>>
    /\ UNCHANGED <<terminal_width, terminal_height, present_vars, chunk_vars>>

\* The chunk variables while the frame loop runs: what the last call of
\* generate_chunk_geometry in MinecraftTTY::new, the one for chunk (1, 1),
\* left behind when it returned.  The frame loop changes none of it; the noise is the flat one.
ChunkIdle ==
    LET height == Height(PerlinGet(FlatNoise, 0, 0))
        blocks == CHUNK_SIZE * CHUNK_SIZE * height
    IN  /\ chunk_pos = <<1, 1>>
        /\ perlin = FlatNoise
        /\ cpc = "returned"
        /\ gx = CHUNK_SIZE - 1
        /\ gz = CHUNK_SIZE - 1
        /\ height_noise = PerlinGet(FlatNoise, 0, 0)
        /\ column = << >>
        /\ my = height
        /\ block_count = blocks
        /\ n_vertices = blocks * VERTICES_PER_CUBE
        /\ n_indices = blocks * Len(BlockIndices(0))
        /\ last_vertices = << >>
        /\ last_indices = << >>
        /\ index_offset = blocks * VERTICES_PER_CUBE
        /\ wrapped = FALSE
        /\ index_count = blocks * Len(BlockIndices(0))

\* MinecraftTTY::new: the terminal size; then run starts
Init ==
    /\ ChunkIdle
    /\ terminal_width \in 1..MaxCols
    /\ terminal_height \in 1..MaxRows
    /\ run_pc = "enable_raw"
    /\ raw_mode = FALSE
    /\ alt_screen = FALSE
    /\ cursor_hidden = FALSE
    /\ loop_result = "none"
    /\ run_result = "none"
    /\ exit_key = "none"
    /\ ppc = "idle"
    /\ pixels = EmptyBuffer
    /\ terminal_row = 0
    /\ terminal_col = 0
    /\ prev_color1 = None
    /\ prev_color2 = None
    /\ out = << >>
    /\ frame_no = 0
    /\ prev_pixels = EmptyBuffer
    /\ prev_out = << >>
    /\ sampled = NotSampled

Next ==
    \/ EnableRawMode
    \/ EnterAlternateScreen
    \/ HandleInput
    \/ ReadPixels
    \/ WriteBegin
    \/ WriteHome
    \/ WriteRowPos
    \/ WriteForeground
    \/ WriteBackground
    \/ WriteGlyph
    \/ WriteEnd
    \/ Flush
    \/ Sleep
    \/ LeaveAlternateScreen
    \/ DisableRawMode

Spec == Init /\ [][Next]_vars

-----------------------------------------------------------------------------
(* One present_to_terminal call on a buffer of any length *)

\* the buffers of the session's renderer size, cut off after any byte
AnyBuffers ==
    {[pat |-> pat, len |-> ToU32(n)] :
        pat \in Patterns, n \in 0..(renderer_width * renderer_height * 4)}

\* present_to_terminal after read_pixels has returned pixels
AnyBufferInit ==
    /\ ChunkIdle
    /\ terminal_width \in 1..MaxCols
    /\ terminal_height \in 1..MaxRows
    /\ run_pc = "render"
    /\ raw_mode = TRUE
    /\ alt_screen = TRUE
    /\ cursor_hidden = TRUE
    /\ loop_result = "none"
    /\ run_result = "none"
    /\ exit_key = "none"
    /\ ppc = "begin"
    /\ pixels \in AnyBuffers
    /\ terminal_row = 0
    /\ terminal_col = 0
    /\ prev_color1 = None
    /\ prev_color2 = None
    /\ out = << >>
    /\ frame_no = 0
    /\ prev_pixels = EmptyBuffer
    /\ prev_out = << >>
    /\ sampled = NotSampled

AnyBufferNext ==
    \/ WriteBegin
    \/ WriteHome
    \/ WriteRowPos
    \/ WriteForeground
    \/ WriteBackground
    \/ WriteGlyph
    \/ WriteEnd
    \/ Flush

SpecAnyBuffer == AnyBufferInit /\ [][AnyBufferNext]_vars

-----------------------------------------------------------------------------
(* The body of the cell loop, applied to any cell of any terminal *)

\* Terminals, as (columns, rows), on which pixel indices exceed u32.  The
\* size is a pair of u16 (get_terminal_size), so the frame of 2 * columns by
\* 2 * rows pixels may hold more than 2^32 bytes.
LargeTerminals == {<<32768, 8193>>, <<32767, 8193>>, <<65535, 65535>>}

TerminalSizes == ((1..MaxCols) \X (1..MaxRows)) \cup LargeTerminals

IsLargeTerminal == <<terminal_width, terminal_height>> \in LargeTerminals

\* the buffers a cell is sampled from: on a small terminal the frame cut off
\* after any byte, on a large one the frame and the frame without its last
\* pixel row (an odd height)
CellBuffers ==
    IF IsLargeTerminal
    THEN {PixelBuffer(pat, h) :
             pat \in Patterns, h \in {renderer_height - 1, renderer_height}}
    ELSE AnyBuffers

\* the cells sampled: every cell of a small terminal; on a large one the
\* first and last rows and columns, and the rows and the column at which the
\* indices of a terminal 32768 or 32767 columns wide first exceed u32
SampledRows ==
    IF IsLargeTerminal
    THEN {0, 8191, 8192, terminal_height - 1}
    ELSE 0..(terminal_height - 1)
SampledCols ==
    IF IsLargeTerminal
    THEN {0, 16384, terminal_width - 1}
    ELSE 0..(terminal_width - 1)

\* The loop body from the four indices to c2, for the cell (row, col): a
\* function of the cell, renderer.width and pixels.  An index computation
\* that exceeds u32 panics in a build with overflow checks and wraps in one
\* without; a read at or past pixels.len() panics in both.
SampleCell ==
    /\ run_pc = "render"
    /\ ppc = "begin"
    /\ \E row \in SampledRows, col \in SampledCols :
          LET overflows == CellOverflows(row, col)
          IN  \E panics \in (IF overflows /\ ~wrapped THEN BOOLEAN ELSE {FALSE}) :
                 /\ sampled' =
                       IF panics
                       THEN [row |-> row, col |-> col, outcome |-> "overflow panic"]
                       ELSE IF ReadsPastEnd(pixels, row, col)
                       THEN [row |-> row, col |-> col, outcome |-> "index panic"]
                       ELSE [row |-> row, col |-> col, outcome |-> "colours",
                             c1 |-> TopColor(pixels, row, col),
                             c2 |-> BottomColor(pixels, row, col)]
                 /\ wrapped' = (wrapped \/ (overflows /\ ~panics))
    /\ UNCHANGED <<terminal_width, terminal_height, term_vars, run_pc,
                   loop_result, run_result, exit_key, ppc, pixels, terminal_row,
                   terminal_col, prev_color1, prev_color2, out, frame_no,
                   prev_pixels, prev_out, chunk_rest>>

\* present_to_terminal after read_pixels has returned pixels, on a terminal
\* of any of the sizes
AnyCellInit ==
    /\ ChunkIdle
    /\ \E size \in TerminalSizes :
          /\ terminal_width = size[1]
          /\ terminal_height = size[2]
    /\ run_pc = "render"
    /\ raw_mode = TRUE
    /\ alt_screen = TRUE
    /\ cursor_hidden = TRUE
    /\ loop_result = "none"
    /\ run_result = "none"
    /\ exit_key = "none"
    /\ ppc = "begin"
    /\ pixels \in CellBuffers
    /\ terminal_row = 0
    /\ terminal_col = 0
    /\ prev_color1 = None
    /\ prev_color2 = None
    /\ out = << >>
    /\ frame_no = 0
    /\ prev_pixels = EmptyBuffer
    /\ prev_out = << >>
    /\ sampled = NotSampled

AnyCellNext == SampleCell

SpecAnyCell == AnyCellInit /\ [][AnyCellNext]_vars

-----------------------------------------------------------------------------
(* Claims about present_to_terminal and run *)

\* the colour codes among the writes of one call, in order
ColourCodes(o) == SelectSeq(o, LAMBDA t : t[1] \in {"fg", "bg"})

HasToken(o, name) == \E i \in DOMAIN o : o[i][1] = name

\* where the glyphs are among the writes of one call
GlyphIdx(o) == SelectSeq([i \in 1..Len(o) |-> i], LAMBDA i : o[i][1] = "glyph")

\* cell k (row-major, from 0) had its two colour codes written before its glyph
CellHasColour(o, k) ==
    LET g == GlyphIdx(o)[k + 1]
    IN  /\ g > 2
        /\ o[g - 1][1] = "bg"
        /\ o[g - 2][1] = "fg"

Cells == terminal_width * terminal_height

\* a call has completed after an earlier one, on the identical buffer
SecondIdenticalPresent ==
    /\ ppc = "ok"
    /\ frame_no >= 2
    /\ pixels = prev_pixels

\* C3: the second of two presents of the identical buffer writes no colour
\* code at all: a cell's codes are written only when its pair differs from
\* the pair kept for that cell from the frame before.
C3_SecondPresentSilent ==
    SecondIdenticalPresent => Len(ColourCodes(out)) = 0

\* C4: when present returns an error after the begin marker was written,
\* the end marker has been written too.
C4_BracketClosedOnError ==
    (ppc = "err" /\ HasToken(out, "begin")) => HasToken(out, "end")

\* the first present has completed
FirstPresentDone ==
    /\ ppc = "ok"
    /\ frame_no = 1

\* C5: on the first frame presented every cell gets its foreground and its
\* background code, whatever the pixels are.
C5_FirstFrameAllCells ==
    FirstPresentDone => \A k \in 0..(Cells - 1) : CellHasColour(out, k)

\* C8 as claimed: the loop is left only from its top on an exit key, with
\* no frame cut short.
C8_ExitOnlyAtTop ==
    loop_result # "none" =>
        /\ exit_key \in {"x", "Esc"}
        /\ ppc \in {"idle", "ok"}

\* C8 as amended: the loop is left either from its top on an exit key, every
\* started frame complete, or from the render step with the error of a
\* failed readback or terminal write; inside a frame the loop has not exited.
C8_ExitAtTopOrOnError ==
    /\ loop_result # "none" =>
          \/ /\ loop_result = "Ok"
             /\ exit_key \in {"x", "Esc"}
             /\ ppc \in {"idle", "ok"}
          \/ /\ loop_result = "Err"
             /\ exit_key = "none"
             /\ ppc = "err"
    /\ ppc \notin {"idle", "ok", "err"} =>
          (loop_result = "none" /\ run_pc = "render")

\* the loop was left on an exit key after complete frames
C8_Witness ==
    /\ loop_result = "Ok"
    /\ exit_key = "Esc"
    /\ frame_no >= 2
    /\ run_pc = "returned"


\* how many of the writes of one call are the token tok
CountToken(o, tok) == Cardinality({i \in DOMAIN o : o[i] = tok})

\* C11: in a present call that completes without a write error the begin
\* marker is the first write and the end marker the last before the flush,
\* each written once, with every cursor, colour and glyph write between them.
C11_BracketAroundFrame ==
    ppc = "ok" =>
        /\ Len(out) >= 3
        /\ out[1] = <<"begin">>
        /\ out[Len(out) - 1] = <<"end">>
        /\ out[Len(out)] = <<"flush">>
        /\ CountToken(out, <<"begin">>) = 1
        /\ CountToken(out, <<"end">>) = 1
        /\ CountToken(out, <<"flush">>) = 1
        /\ \A i \in DOMAIN out :
              out[i][1] \in {"home", "pos", "fg", "bg", "glyph"}
                  => (1 < i /\ i < Len(out) - 1)

\* a completed frame of several rows with colour codes and glyphs inside
C11_Witness ==
    /\ ppc = "ok"
    /\ terminal_height > 1
    /\ Len(ColourCodes(out)) > 2
    /\ HasToken(out, "glyph")

\* the cursor directives and glyphs among the writes of one call, in order
RowsAndGlyphs(o) == SelectSeq(o, LAMBDA t : t[1] \in {"pos", "glyph"})

\* what a frame must hold: per row its directive, then terminal_width glyphs
ExpectedRowsAndGlyphs ==
    [i \in 1..(terminal_height * (terminal_width + 1)) |->
        IF (i - 1) % (terminal_width + 1) = 0
        THEN <<"pos", ((i - 1) \div (terminal_width + 1)) + 1>>
        ELSE <<"glyph">>]

\* C12: in every completed frame each row r has its directive ESC[r+1;1H
\* before its cells, followed by exactly terminal_width glyphs before the
\* next row's directive, whether or not colour codes were written.
C12_RowDirectivesAndGlyphs ==
    ppc = "ok" => RowsAndGlyphs(out) = ExpectedRowsAndGlyphs

\* a completed frame of two rows in which some cell got no colour code
C12_Witness ==
    /\ ppc = "ok"
    /\ terminal_height > 1
    /\ terminal_width > 1
    /\ Len(ColourCodes(out)) < 2 * Cells


\* the integer average of the pixels (2 col, y) and (2 col + 1, y) of a frame
PairAverage(buf, col, y) ==
    [ch \in 1..3 |->
        (PixelColour(buf.pat, 2 * col, y)[ch]
            + PixelColour(buf.pat, 2 * col + 1, y)[ch]) \div 2]

\* the loop body was applied to a cell
CellSampled == sampled # NotSampled

\* the buffer is the whole frame, 2 * terminal_width by 2 * terminal_height
FullFrame == pixels.len = FrameLen(2 * terminal_width, 2 * terminal_height)

\* C13: with the buffer 2 * terminal_width by 2 * terminal_height pixels, the
\* foreground of cell (col, row) is the per-channel integer average of pixels
\* (2 col, 2 row) and (2 col + 1, 2 row), its background that of pixels
\* (2 col, 2 row + 1) and (2 col + 1, 2 row + 1), each within 0..255.  (Stated
\* of the cells the loop body gives colours; where it panics there are none.)
C13_CellColoursAreAverages ==
    (CellSampled /\ FullFrame /\ sampled.outcome = "colours") =>
        /\ sampled.c1 = PairAverage(pixels, sampled.col, 2 * sampled.row)
        /\ sampled.c2 = PairAverage(pixels, sampled.col, 2 * sampled.row + 1)
        /\ \A ch \in 1..3 : sampled.c1[ch] \in 0..255 /\ sampled.c2[ch] \in 0..255

\* the byte the pixel at (x, y) starts at, as a usize: (y * width + x) * 4
\* without the bounds of u32
ByteOffset(x, y) == AddUsize(FrameLen(2 * terminal_width, y), 4 * x)

\* the bottom pixel row of the cell starts at or past the buffer's end
BottomRowBeyondBuffer(row, col) ==
    ~LessUsize(ByteOffset(2 * col, 2 * row + 1), pixels.len)

\* C14: whatever the buffer's length, the loop body reads no index at or
\* beyond its end; a cell whose bottom pixel row lies beyond the buffer gets
\* its foreground colour as its background.
C14_NoReadPastBuffer ==
    CellSampled =>
        /\ sampled.outcome # "index panic"
        /\ (sampled.outcome = "colours"
               /\ BottomRowBeyondBuffer(sampled.row, sampled.col))
              => sampled.c2 = sampled.c1


\* the quadrants of the atlas
Quadrants == {"grass-side", "grass-top", "stone", "dirt"}

\* the cell of the 2x2 atlas a quadrant fills, as (column, row)
QuadrantCell(q) ==
    CASE q = "grass-side" -> <<0, 0>>
      [] q = "grass-top"  -> <<1, 0>>
      [] q = "stone"      -> <<0, 1>>
      [] q = "dirt"       -> <<1, 1>>

\* the corners of a cell, in halves of the atlas
CellCorners(c) == {<<c[1] + dx, c[2] + dy>> : dx \in 0..1, dy \in 0..1}

\* the table of the claim: the quadrant of a material's face
QuadrantOf(block_type, face) ==
    IF block_type = "Grass"
    THEN IF face <= 3 THEN "grass-side"
         ELSE IF face = 4 THEN "dirt" ELSE "grass-top"
    ELSE IF block_type = "Dirt" THEN "dirt" ELSE "stone"

\* the vertices of one face of a block's cube
FaceVertices(vs, face) == {vs[face * 4 + i] : i \in 1..4}

\* a block of the column has just been meshed
BlockMeshed == cpc = "mesh" /\ my >= 1 /\ Len(last_vertices) = VERTICES_PER_CUBE

\* C15: the texture coordinates of every face of a meshed block are the
\* corners of the quadrant the table gives for its material and face index:
\* Grass has grass-side on faces 0-3, dirt on face 4, the bottom, grass-top on
\* face 5, the top; Dirt and Stone have their own quadrant on all six; the
\* four quadrants are four different cells of the 2x2 atlas.
C15_FaceQuadrants ==
    /\ BlockMeshed =>
          /\ \A face \in 0..5 :
                {v.tex_coord : v \in FaceVertices(last_vertices, face)}
                    = CellCorners(QuadrantCell(QuadrantOf(column[my], face)))
          /\ \A v \in FaceVertices(last_vertices, 4) :
                v.position[2] = world_pos(gx, my - 1, gz)[2]
          /\ \A v \in FaceVertices(last_vertices, 5) :
                v.position[2] = world_pos(gx, my - 1, gz)[2] + 1
    /\ \A q1, q2 \in Quadrants : q1 # q2 => QuadrantCell(q1) # QuadrantCell(q2)
    /\ \A q \in Quadrants : QuadrantCell(q) \in (0..1) \X (0..1)

\* a Grass block, the one material with three quadrants, has just been meshed
C15_Witness ==
    /\ BlockMeshed
    /\ column[my] = "Grass"
    /\ \E v \in FaceVertices(last_vertices, 5) : v.tex_coord = <<2, 0>>
    /\ \E v \in FaceVertices(last_vertices, 4) : v.tex_coord = <<2, 2>>


\* the colour of the last code named name among the writes so far, None
\* when no such code was written
LastCode(o, name) ==
    LET at == {i \in DOMAIN o : o[i][1] = name}
    IN  IF at = {} THEN None
        ELSE LET last == CHOOSE i \in at : \A j \in at : j <= i
             IN  Some(<<o[last][2], o[last][3], o[last][4]>>)

\* C16: when a cell's glyph is about to be written, the last foreground code
\* written in this call carries the cell's c1 and the last background code
\* its c2, whether the codes were written for this cell or skipped.
C16_GlyphDrawnInCellColours ==
    ppc = "glyph" =>
        /\ LastCode(out, "fg") = Some(TopColor(pixels, terminal_row, terminal_col))
        /\ LastCode(out, "bg") = Some(BottomColor(pixels, terminal_row, terminal_col))

\* a cell whose codes were skipped, in a frame that is not of one colour
C16_Witness ==
    /\ ppc = "glyph"
    /\ out[Len(out)][1] = "glyph"
    /\ Len(ColourCodes(out)) > 2


\* C17: once run has returned, the cursor is shown, the alternate screen is
\* left and raw mode is disabled, whichever path led to the return.  (A
\* return before raw mode was enabled has nothing to restore.)
C17_TerminalRestored ==
    run_pc = "returned" =>
        /\ ~cursor_hidden
        /\ ~alt_screen
        /\ ~raw_mode

=============================================================================
